---- MODULE Spec2Model ----
(***************************************************************************)
(* EV Predictive Maintenance dashboard (src/updated_app_test2.py).         *)
(*                                                                         *)
(* The script is a Streamlit page: every user interaction re-executes it   *)
(* from the top.  One script run is modelled as a sequence of steps        *)
(* (pc), the browser's widgets as `front`, the widget values the running   *)
(* script sees as `w`.  Numbers that are floats in the program are exact   *)
(* rationals <<numerator, denominator>> with a positive denominator.       *)
(* The model files on disk do not change during a session, and the two     *)
(* models are opaque: what they return for each row of a batch is an       *)
(* input of the behaviour (rul_out, proba_out), as is the state of the     *)
(* random generator (rng).                                                 *)
(***************************************************************************)
EXTENDS Integers, Sequences, FiniteSets, TLC

VARIABLES
    files,          \* disk: path -> "missing" | "valid" | "corrupt"
    rul_out,        \* what rul_model.predict returns for batch row i
    proba_out,      \* what failure_model.predict_proba(...)[:, 1] returns for row i
    rng,            \* state of the random generator: the next eight outputs of random()
    cache,          \* st.cache_resource of load_model: path -> <<>> | <<entry>>
    front,          \* widget state in the browser
    w,              \* widget state the current script run reads
    pc,             \* position of the current script run
    rul_model,      \* "None" | "model"
    failure_model,  \* "None" | "model"
    manual_input,   \* <<>> before line 91, then <<row>>
    uploaded_file,  \* the file object read at line 107
    csv_data,       \* <<>> is None, <<rows>> a DataFrame
    input_data,     \* <<>> unbound, <<rows>> the combined batch
    calls,          \* model methods invoked by this run, in order
    exc,            \* exception caught at line 167 ("none" when none)
    results,        \* rows of the table shown at line 142
    metrics,        \* <<>> | <<[avg_rul, avg_failure]>> shown at lines 148-149
    recs,           \* <<>> | <<record>> the list written at lines 152-156
    chart,          \* <<>> | <<label -> y>> the bars of line 158-165
    messages,       \* banners shown by this run, in order
    start,          \* value of the checkbox read at line 179
    sensor_data,    \* <<>> | <<sample>> the dict of line 182
    placeholder,    \* <<>> | <<[metrics, chart]>> what lines 194-205 display
    samples,        \* samples generated by this run
    elapsed         \* seconds this run has spent in time.sleep

vars == <<files, rul_out, proba_out, rng, cache, front, w, pc, rul_model,
          failure_model, manual_input, uploaded_file, csv_data, input_data,
          calls, exc, results, metrics, recs, chart, messages, start,
          sensor_data, placeholder, samples, elapsed>>

(***************************************************************************)
(* Bounds of the model.                                                    *)
(***************************************************************************)
MaxUpload == 2      \* rows of an uploaded CSV
MaxBatch == 2       \* rows of a batch whose predictions are drawn freely
MaxSamples == 2     \* live samples followed per script run
RandSteps == 1      \* random() is drawn from the grid 0/RandSteps .. RandSteps/RandSteps
MaxEdits == 1       \* sidebar controls moved away from their default

(***************************************************************************)
(* Exact rational arithmetic for the program's floats.                     *)
(***************************************************************************)
R(n) == <<n, 1>>
RDivInt(a, k) == <<a[1], a[2] * k>>
RMulInt(a, k) == <<a[1] * k, a[2]>>
RAdd(a, b) == <<a[1] * b[2] + b[1] * a[2], a[2] * b[2]>>
RSub(a, b) == <<a[1] * b[2] - b[1] * a[2], a[2] * b[2]>>
RMul(a, b) == <<a[1] * b[1], a[2] * b[2]>>
REq(a, b) == a[1] * b[2] = b[1] * a[2]
RLt(a, b) == a[1] * b[2] < b[1] * a[2]
RLe(a, b) == a[1] * b[2] <= b[1] * a[2]

\* Python's int(x): truncation toward zero.
TruncInt(a) == IF a[1] >= 0 THEN a[1] \div a[2] ELSE -((-a[1]) \div a[2])

RECURSIVE Pow10(_)
Pow10(d) == IF d = 0 THEN 1 ELSE 10 * Pow10(d - 1)

\* f"{x:.<d>f}": x rounded to d decimals (ties to even), as the integer x * 10^d.
FormatFixed(a, d) ==
    LET n == a[1] * Pow10(d)
        q == n \div a[2]
        r == n % a[2]
    IN  IF 2 * r > a[2] \/ (2 * r = a[2] /\ q % 2 = 1) THEN q + 1 ELSE q

RECURSIVE RSumSeq(_)
RSumSeq(s) == IF s = <<>> THEN R(0) ELSE RAdd(Head(s), RSumSeq(Tail(s)))

\* numpy's mean() of a non-empty vector.
Mean(s) == RDivInt(RSumSeq(s), Len(s))

(***************************************************************************)
(* Paths and model loading.                                                *)
(***************************************************************************)
RUL_MODEL_PATH == "RUL_pipeline.pkl"
FAILURE_MODEL_PATH == "Failure_Probability_pipeline.pkl"
Paths == {RUL_MODEL_PATH, FAILURE_MODEL_PATH}
FileStates == {"missing", "valid", "corrupt"}

Msg(where, kind, text) == [where |-> where, kind |-> kind, text |-> text]

\* Body of load_model(path): the value returned, the banners it shows, and
\* whether joblib.load raised.
load_model(path) ==
    IF files[path] = "valid"
    THEN [value |-> "model", msgs |-> <<>>, raised |-> FALSE]
    ELSE IF files[path] = "missing"
    THEN [value |-> "None",
          msgs |-> <<Msg("sidebar", "error", "Model not found")>>,
          raised |-> FALSE]
    ELSE [value |-> "None", msgs |-> <<>>, raised |-> TRUE]

\* @st.cache_resource: a cached call returns the stored value and replays
\* the banners the body showed; a call that raises is not cached.
CachedLoad(path) ==
    IF cache[path] # <<>>
    THEN [value |-> cache[path][1].value, msgs |-> cache[path][1].msgs,
          raised |-> FALSE, cache |-> cache]
    ELSE LET r == load_model(path)
         IN  [value |-> r.value, msgs |-> r.msgs, raised |-> r.raised,
              cache |-> IF r.raised THEN cache
                        ELSE [cache EXCEPT ![path] =
                                 <<[value |-> r.value, msgs |-> r.msgs]>>]]

Traceback == Msg("page", "exception", "Traceback")

(***************************************************************************)
(* Sidebar controls (lines 51-78) and the manual row (lines 83-95).        *)
(***************************************************************************)
Ctl(lo, hi, def) == [min |-> lo, max |-> hi, default |-> def]

ControlRange ==
    [soc |-> Ctl(R(0), R(100), R(80)),
     soh |-> Ctl(R(0), R(100), R(95)),
     battery_voltage |-> Ctl(R(0), R(500), R(400)),
     battery_current |-> Ctl(R(-500), R(500), R(0)),
     battery_temp |-> Ctl(R(0), R(100), R(30)),
     charge_cycles |-> Ctl(R(0), R(5000), R(150)),
     motor_temp |-> Ctl(R(0), R(200), R(60)),
     motor_vibration |-> Ctl(R(0), R(10), <<5, 10>>),
     motor_torque |-> Ctl(R(0), R(500), R(100)),
     motor_rpm |-> Ctl(R(0), R(10000), R(2000)),
     power_consumption |-> Ctl(R(0), R(500), R(50)),
     brake_wear |-> Ctl(R(0), R(100), R(20)),
     brake_pressure |-> Ctl(R(0), R(100), R(40)),
     reg_brake_eff |-> Ctl(R(0), R(1), <<8, 10>>),
     tire_pressure |-> Ctl(R(20), R(50), R(32)),
     tire_temp |-> Ctl(R(0), R(100), R(30)),
     suspension_load |-> Ctl(R(0), R(500), R(100)),
     ambient_temp |-> Ctl(R(-10), R(50), R(25)),
     ambient_humidity |-> Ctl(R(0), R(100), R(50)),
     load_weight |-> Ctl(R(0), R(2000), R(500)),
     driving_speed |-> Ctl(R(0), R(200), R(60)),
     distance_traveled |-> Ctl(R(0), R(500000), R(20000)),
     idle_time |-> Ctl(R(0), R(5000), R(60)),
     route_roughness |-> Ctl(R(0), R(10), R(2))]

ControlNames == DOMAIN ControlRange

DefaultControls == [c \in ControlNames |-> ControlRange[c].default]

features ==
    <<"SoC", "SoH", "Battery_Voltage", "Battery_Current", "Battery_Temperature",
      "Charge_Cycles", "Motor_Temperature", "Motor_Vibration", "Motor_Torque",
      "Motor_RPM", "Power_Consumption", "Brake_Pad_Wear", "Brake_Pressure",
      "Reg_Brake_Efficiency", "Tire_Pressure", "Tire_Temperature",
      "Suspension_Load", "Ambient_Temperature", "Ambient_Humidity",
      "Load_Weight", "Driving_Speed", "Distance_Traveled", "Idle_Time",
      "Route_Roughness">>

FeatureSet == {features[i] : i \in 1..Len(features)}

\* The list of values of line 91-95, in its written order.
ManualValuesRawBrake(c) ==
    <<RDivInt(c.soc, 100), RDivInt(c.soh, 100), c.battery_voltage,
      c.battery_current, c.battery_temp, c.charge_cycles, c.motor_temp,
      c.motor_vibration, c.motor_torque, c.motor_rpm, c.power_consumption,
      c.brake_wear, c.brake_pressure, c.reg_brake_eff,
      c.tire_pressure, c.tire_temp, c.suspension_load, c.ambient_temp,
      c.ambient_humidity, c.load_weight, c.driving_speed,
      c.distance_traveled, c.idle_time, c.route_roughness>>
ManualValues(c) ==
    <<RDivInt(c.soc, 100), RDivInt(c.soh, 100), c.battery_voltage,
      c.battery_current, c.battery_temp, c.charge_cycles, c.motor_temp,
      c.motor_vibration, c.motor_torque, c.motor_rpm, c.power_consumption,
      RDivInt(c.brake_wear, 100), c.brake_pressure, c.reg_brake_eff,
      c.tire_pressure, c.tire_temp, c.suspension_load, c.ambient_temp,
      c.ambient_humidity, c.load_weight, c.driving_speed,
      c.distance_traveled, c.idle_time, c.route_roughness>>

\* pd.DataFrame([values], columns=features): one row, column -> value.
DataFrameRow(values, columns) ==
    [f \in {columns[i] : i \in 1..Len(columns)} |->
        values[CHOOSE i \in 1..Len(columns) : columns[i] = f]]

ManualRow(c) == DataFrameRow(ManualValues(c), features)

(***************************************************************************)
(* Widgets.  An uploaded file is "none" (nothing uploaded), "csv" (parses  *)
(* to `rows`) or "bad" (pd.read_csv raises; `rows` are the lines before    *)
(* the malformed one).                                                     *)
(***************************************************************************)
CsvRowA == [ManualRow(DefaultControls) EXCEPT !["SoC"] = <<1, 2>>]
CsvRowB == [ManualRow(DefaultControls) EXCEPT !["SoH"] = <<7, 10>>]
CsvRows == {CsvRowA, CsvRowB}

SeqsUpTo(S, n) == UNION {[1..k -> S] : k \in 0..n}

NoFile == [kind |-> "none", rows |-> <<>>]
BadFile == [kind |-> "bad", rows |-> <<CsvRowA>>]
CsvFiles == {[kind |-> "csv", rows |-> r] : r \in SeqsUpTo(CsvRows, MaxUpload)}
UploadFiles == {NoFile, BadFile} \cup CsvFiles

DistanceVals == {R(20000), R(45000)}

DefaultWidgets ==
    [controls |-> DefaultControls, uploaded |-> NoFile,
     checkbox |-> FALSE, clicked |-> FALSE]

\* st.button is True only in the run its click triggers.
Settled(ws) == [ws EXCEPT !.clicked = FALSE]

(***************************************************************************)
(* The models' answers and the random generator.                           *)
(***************************************************************************)
MaxRows == MaxUpload + 1
RulVals == {R(-50), R(179), R(180), R(300), R(420)}
ProbVals == {<<1, 10>>, <<3, 10>>, <<1, 2>>, <<6, 10>>}

Grid == 0..RandSteps
SensorCalls == 1..8
NextRng(g) == [i \in SensorCalls |-> (g[i] + 1) % (RandSteps + 1)]

(***************************************************************************)
(* Start of a script run: every script variable is unbound.                *)
(***************************************************************************)
FreshRun ==
    /\ pc' = "load_rul"
    /\ rul_model' = "None"
    /\ failure_model' = "None"
    /\ manual_input' = <<>>
    /\ uploaded_file' = NoFile
    /\ csv_data' = <<>>
    /\ input_data' = <<>>
    /\ calls' = <<>>
    /\ exc' = "none"
    /\ results' = <<>>
    /\ metrics' = <<>>
    /\ recs' = <<>>
    /\ chart' = <<>>
    /\ messages' = <<>>
    /\ start' = FALSE
    /\ sensor_data' = <<>>
    /\ placeholder' = <<>>
    /\ samples' = 0
    /\ elapsed' = 0

InitRun ==
    /\ pc = "load_rul"
    /\ rul_model = "None"
    /\ failure_model = "None"
    /\ manual_input = <<>>
    /\ uploaded_file = NoFile
    /\ csv_data = <<>>
    /\ input_data = <<>>
    /\ calls = <<>>
    /\ exc = "none"
    /\ results = <<>>
    /\ metrics = <<>>
    /\ recs = <<>>
    /\ chart = <<>>
    /\ messages = <<>>
    /\ start = FALSE
    /\ sensor_data = <<>>
    /\ placeholder = <<>>
    /\ samples = 0
    /\ elapsed = 0

\* The first run of a session: nothing cached, every widget at its default.
Init ==
    /\ files \in [Paths -> FileStates]
    /\ rul_out = [i \in 1..MaxRows |-> R(300)]
    /\ proba_out = [i \in 1..MaxRows |-> <<3, 10>>]
    /\ rng = [i \in SensorCalls |-> 0]
    /\ cache = [p \in Paths |-> <<>>]
    /\ front = DefaultWidgets
    /\ w = DefaultWidgets
    /\ InitRun

env == <<files, rul_out, proba_out>>
tab2_vars == <<input_data, calls, exc, results, metrics, recs, chart>>
live_vars == <<start, sensor_data, placeholder, samples, elapsed, rng>>

(***************************************************************************)
(* Lines 35-36: rul_model = load_model(...), failure_model = load_model(...)*)
(***************************************************************************)
LoadRul ==
    /\ pc = "load_rul"
    /\ LET r == CachedLoad(RUL_MODEL_PATH)
       IN  /\ cache' = r.cache
           /\ rul_model' = r.value
           /\ messages' = IF r.raised THEN Append(messages, Traceback)
                          ELSE messages \o r.msgs
           /\ pc' = IF r.raised THEN "crashed" ELSE "load_failure"
    /\ UNCHANGED <<env, front, w, failure_model, manual_input, uploaded_file,
                   csv_data, tab2_vars, live_vars>>

LoadFailure ==
    /\ pc = "load_failure"
    /\ LET r == CachedLoad(FAILURE_MODEL_PATH)
       IN  /\ cache' = r.cache
           /\ failure_model' = r.value
           /\ messages' = IF r.raised THEN Append(messages, Traceback)
                          ELSE messages \o r.msgs
           /\ pc' = IF r.raised THEN "crashed" ELSE "sidebar"
    /\ UNCHANGED <<env, front, w, rul_model, manual_input, uploaded_file,
                   csv_data, tab2_vars, live_vars>>

(***************************************************************************)
(* Lines 49-95: read the 24 controls, build manual_input.                  *)
(***************************************************************************)
Sidebar ==
    /\ pc = "sidebar"
    /\ manual_input' = <<ManualRow(w.controls)>>
    /\ pc' = "tab1"
    /\ UNCHANGED <<env, cache, front, w, rul_model, failure_model,
                   uploaded_file, csv_data, tab2_vars, messages, live_vars>>

(***************************************************************************)
(* Lines 105-118: the CSV upload.                                          *)
(***************************************************************************)
\* line 116, the except branch: csv_data = None.
CsvOnErrorPartial(file) == <<file.rows>>
CsvOnError(file) == <<>>

read_csv(file) ==
    IF file.kind = "csv"
    THEN [raised |-> FALSE, frame |-> <<file.rows>>]
    ELSE [raised |-> TRUE, frame |-> <<>>]

Tab1 ==
    /\ pc = "tab1"
    /\ uploaded_file' = w.uploaded
    /\ IF w.uploaded.kind # "none"
       THEN LET r == read_csv(w.uploaded)
            IN  IF r.raised
                THEN /\ messages' = Append(messages,
                                       Msg("tab1", "error", "Error reading CSV"))
                     /\ csv_data' = CsvOnError(w.uploaded)
                ELSE /\ messages' = Append(messages,
                                       Msg("tab1", "success", "CSV Loaded Successfully"))
                     /\ csv_data' = r.frame
       ELSE /\ messages' = messages
            /\ csv_data' = <<>>
    /\ pc' = "tab2"
    /\ UNCHANGED <<env, cache, front, w, rul_model, failure_model,
                   manual_input, tab2_vars, live_vars>>

(***************************************************************************)
(* Lines 123-168: the prediction.                                          *)
(***************************************************************************)
\* line 126: if rul_model and failure_model
ModelsAvailable == rul_model # "None" /\ failure_model # "None"

\* line 128: pd.concat([manual_input, csv_data], ignore_index=True) when
\* csv_data is not None, else manual_input.
InputDataCsvFirst(manual, csv) ==
    IF csv # <<>> THEN csv[1] \o <<manual>> ELSE <<manual>>
InputData(manual, csv) ==
    IF csv # <<>> THEN <<manual>> \o csv[1] ELSE <<manual>>

\* line 138: the warranty rule of one row.  The program's two strings carry
\* a check-mark and a cross before the word; only the word is kept here.
WarrantyInclusive(rul, p) ==
    IF RLe(rul, R(180)) \/ RLe(<<1, 2>>, p) THEN "Accepted" ELSE "Rejected"
Warranty(rul, p) ==
    IF RLt(rul, R(180)) \/ RLt(<<1, 2>>, p) THEN "Accepted" ELSE "Rejected"

\* lines 133-140: one row of `results`.
ResultRow(row, rul, p) ==
    [features |-> row,
     RUL_days |-> rul,
     Failure_Probability |-> p,
     Vehicle_Health |-> RSub(R(1), p),
     Warranty_Claim_Accepted |-> Warranty(rul, p)]

\* lines 152-156: the recommendation list.
RecommendedSwapped(avg_rul, distance) ==
    [battery |-> TruncInt(RDivInt(avg_rul, 3)),
     brakes |-> TruncInt(RDivInt(avg_rul, 2)),
     tires |-> TruncInt(RDivInt(distance, 1000)),
     cooling |-> TruncInt(RDivInt(avg_rul, 5)),
     motor |-> TruncInt(RDivInt(avg_rul, 4))]
Recommended(avg_rul, distance) ==
    [battery |-> TruncInt(RDivInt(avg_rul, 3)),
     brakes |-> TruncInt(RDivInt(avg_rul, 2)),
     tires |-> TruncInt(RDivInt(distance, 1000)),
     cooling |-> TruncInt(RDivInt(avg_rul, 4)),
     motor |-> TruncInt(RDivInt(avg_rul, 5))]

\* lines 158-165: px.bar(x=[...], y=[...]) pairs the two lists by position.
BarLabels == <<"Battery", "Brakes", "Tires", "Motor", "Cooling">>
BarHeights(avg_rul, distance) ==
    <<RDivInt(avg_rul, 3), RDivInt(avg_rul, 2), RDivInt(distance, 1000),
      RDivInt(avg_rul, 4), RDivInt(avg_rul, 5)>>
Bars(avg_rul, distance) == DataFrameRow(BarHeights(avg_rul, distance), BarLabels)

\* lines 167-168: except Exception as e: st.error(...).  The run goes on.
PredictionHandlerNarrow(stage) ==
    IF stage \in {"rul_predict", "predict_proba"}
    THEN [pc |-> "tab3", msg |-> Msg("tab2", "error", "Error during prediction")]
    ELSE [pc |-> "crashed", msg |-> Traceback]
PredictionHandler(stage) ==
    [pc |-> "tab3", msg |-> Msg("tab2", "error", "Error during prediction")]

\* Where the try block can raise, in execution order; "none": it does not.
Stages == <<"concat", "rul_predict", "predict_proba", "derive", "chart", "none">>
StagePos(stage) == CHOOSE i \in 1..Len(Stages) : Stages[i] = stage
Faults == {Stages[i] : i \in 1..Len(Stages)}

TryPrediction(fault) ==
    LET batch == InputData(manual_input[1], csv_data)
        n == Len(batch)
        at == StagePos(fault)
        rul_predictions == [i \in 1..n |-> rul_out[i]]
        failure_predictions == [i \in 1..n |-> proba_out[i]]
        avg_rul == Mean(rul_predictions)
        avg_failure == Mean(failure_predictions)
        distance_traveled == w.controls.distance_traveled
    IN  /\ input_data' = IF at > 1 THEN <<batch>> ELSE <<>>
        /\ calls' = IF at > 2 THEN <<"predict", "predict_proba">>
                    ELSE IF at > 1 THEN <<"predict">> ELSE <<>>
        /\ results' = IF at > 4
                      THEN [i \in 1..n |->
                              ResultRow(batch[i], rul_predictions[i],
                                        failure_predictions[i])]
                      ELSE <<>>
        /\ metrics' = IF at > 4
                      THEN <<[avg_rul |-> TruncInt(avg_rul),
                              avg_failure |->
                                  FormatFixed(RMulInt(avg_failure, 100), 1)]>>
                      ELSE <<>>
        /\ recs' = IF at > 4 THEN <<Recommended(avg_rul, distance_traveled)>>
                   ELSE <<>>
        /\ chart' = IF at > 5 THEN <<Bars(avg_rul, distance_traveled)>>
                    ELSE <<>>
        /\ exc' = fault
        /\ IF fault = "none"
           THEN /\ messages' = messages
                /\ pc' = "tab3"
           ELSE /\ messages' = Append(messages, PredictionHandler(fault).msg)
                /\ pc' = PredictionHandler(fault).pc

Tab2 ==
    /\ pc = "tab2"
    /\ IF w.clicked /\ ModelsAvailable
       THEN \E fault \in Faults : TryPrediction(fault)
       ELSE /\ UNCHANGED <<tab2_vars, messages>>
            /\ pc' = "tab3"
    /\ UNCHANGED <<env, cache, front, w, rul_model, failure_model,
                   manual_input, uploaded_file, csv_data, live_vars>>

(***************************************************************************)
(* Lines 173-207: the live sensor console.                                 *)
(***************************************************************************)
Rng(name, lo, hi) == [name |-> name, lo |-> lo, hi |-> hi]

\* lines 183-190, in call order.
SensorRanges ==
    <<Rng("Battery_Voltage", R(380), R(420)),
      Rng("Battery_Current", R(-50), R(50)),
      Rng("Battery_Temperature", R(25), R(40)),
      Rng("Motor_Temperature", R(50), R(90)),
      Rng("Motor_Vibration", <<1, 10>>, R(2)),
      Rng("Brake_Pad_Wear", <<1, 10>>, <<9, 10>>),
      Rng("Tire_Pressure", R(28), R(36)),
      Rng("Ambient_Temperature", R(20), R(35))>>

SensorNames == {SensorRanges[i].name : i \in SensorCalls}
SensorIndex(name) == CHOOSE i \in SensorCalls : SensorRanges[i].name = name

\* random.uniform(a, b) is a + (b - a) * random(); u is random()'s output.
\* Rounding can return b itself, which is u = 1 here.
uniformScaled(a, b, u) == RAdd(a, RMul(b, u))
uniform(a, b, u) == RAdd(a, RMul(RSub(b, a), u))

Sample(g) ==
    [name \in SensorNames |->
        LET i == SensorIndex(name)
        IN  uniform(SensorRanges[i].lo, SensorRanges[i].hi, <<g[i], RandSteps>>)]

\* lines 195-202: the eight st.metric values, as integers of the last digit shown.
LiveMetrics(d) ==
    [Battery_Voltage |-> FormatFixed(d["Battery_Voltage"], 2),
     Battery_Current |-> FormatFixed(d["Battery_Current"], 2),
     Battery_Temperature |-> FormatFixed(d["Battery_Temperature"], 2),
     Motor_Temperature |-> FormatFixed(d["Motor_Temperature"], 2),
     Motor_Vibration |-> FormatFixed(d["Motor_Vibration"], 2),
     Brake_Pad_Wear |-> FormatFixed(RMulInt(d["Brake_Pad_Wear"], 100), 1),
     Tire_Pressure |-> FormatFixed(d["Tire_Pressure"], 1),
     Ambient_Temperature |-> FormatFixed(d["Ambient_Temperature"], 1)]

\* line 181: while start.  The checkbox is read once, at line 179.
LoopConditionReread == front.checkbox
LoopCondition == start

\* line 207: time.sleep(2)
SleepSeconds == 2

Tab3 ==
    /\ pc = "tab3"
    /\ start' = w.checkbox
    /\ pc' = IF w.checkbox THEN "generate" ELSE "end"
    /\ UNCHANGED <<env, cache, front, w, rul_model, failure_model,
                   manual_input, uploaded_file, csv_data, tab2_vars, messages,
                   sensor_data, placeholder, samples, elapsed, rng>>

Generate ==
    /\ pc = "generate"
    /\ samples < MaxSamples
    /\ sensor_data' = <<Sample(rng)>>
    /\ rng' = NextRng(rng)
    /\ samples' = samples + 1
    /\ pc' = "display"
    /\ UNCHANGED <<env, cache, front, w, rul_model, failure_model,
                   manual_input, uploaded_file, csv_data, tab2_vars, messages,
                   start, placeholder, elapsed>>

Display ==
    /\ pc = "display"
    /\ placeholder' = <<[metrics |-> LiveMetrics(sensor_data[1]),
                         chart |-> sensor_data[1]]>>
    /\ pc' = "sleep"
    /\ UNCHANGED <<env, cache, front, w, rul_model, failure_model,
                   manual_input, uploaded_file, csv_data, tab2_vars, messages,
                   start, sensor_data, samples, elapsed, rng>>

Sleep ==
    /\ pc = "sleep"
    /\ elapsed' = elapsed + SleepSeconds
    /\ pc' = IF LoopCondition THEN "generate" ELSE "end"
    /\ UNCHANGED <<env, cache, front, w, rul_model, failure_model,
                   manual_input, uploaded_file, csv_data, tab2_vars, messages,
                   start, sensor_data, placeholder, samples, rng>>

(***************************************************************************)
(* The user and Streamlit's rerun.  A widget change is queued in the       *)
(* browser; the running script is stopped at its next st.* call and        *)
(* re-executed from line 1 with the new widget values.  One change is      *)
(* followed at a time: the next one is made after the rerun has started.   *)
(***************************************************************************)
run_vars == <<pc, rul_model, failure_model, manual_input, uploaded_file,
              csv_data, tab2_vars, messages, start, sensor_data, placeholder,
              samples, elapsed>>

Pending == front # Settled(w)

ToggleLive ==
    /\ ~Pending
    /\ front' = [front EXCEPT !.checkbox = ~front.checkbox]
    /\ UNCHANGED <<env, rng, cache, w, run_vars>>

ClickRun ==
    /\ ~Pending
    /\ front' = [front EXCEPT !.clicked = TRUE]
    /\ UNCHANGED <<env, rng, cache, w, run_vars>>

Upload ==
    /\ ~Pending
    /\ \E f \in UploadFiles \ {front.uploaded} :
           front' = [front EXCEPT !.uploaded = f]
    /\ UNCHANGED <<env, rng, cache, w, run_vars>>

EditDistance ==
    /\ ~Pending
    /\ \E d \in DistanceVals \ {front.controls.distance_traveled} :
           front' = [front EXCEPT !.controls.distance_traveled = d]
    /\ UNCHANGED <<env, rng, cache, w, run_vars>>

\* Lines 182-193 and 207 make no st.* call: the run cannot be stopped there.
Rerun ==
    /\ Pending
    /\ pc \notin {"generate", "sleep"}
    /\ w' = front
    /\ front' = Settled(front)
    /\ FreshRun
    /\ UNCHANGED <<env, rng, cache>>

Script ==
    \/ LoadRul
    \/ LoadFailure
    \/ Sidebar
    \/ Tab1
    \/ Tab2
    \/ Tab3
    \/ Generate
    \/ Display
    \/ Sleep

Next ==
    \/ Script
    \/ ToggleLive
    \/ ClickRun
    \/ Upload
    \/ EditDistance
    \/ Rerun

Spec == Init /\ [][Next]_vars

(***************************************************************************)
(* Specifications of single script runs, from the state a rerun starts in, *)
(* with the run's inputs drawn at the start.                               *)
(***************************************************************************)
RECURSIVE Edited(_)
Edited(k) ==
    IF k = 0 THEN {DefaultControls}
    ELSE LET prev == Edited(k - 1)
         IN  prev \cup UNION {{[p EXCEPT ![c] = ControlRange[c].min],
                                 [p EXCEPT ![c] = ControlRange[c].max]} :
                                    p \in prev, c \in ControlNames}

\* A first run whose sidebar has up to MaxEdits controls at an end of their range.
InitManual ==
    /\ files = [p \in Paths |-> "missing"]
    /\ rul_out = [i \in 1..MaxRows |-> R(300)]
    /\ proba_out = [i \in 1..MaxRows |-> <<3, 10>>]
    /\ rng = [i \in SensorCalls |-> 0]
    /\ cache = [p \in Paths |-> <<>>]
    /\ \E c \in Edited(MaxEdits) : w = [DefaultWidgets EXCEPT !.controls = c]
    /\ front = w
    /\ InitRun

NextManual == LoadRul \/ LoadFailure \/ Sidebar

SpecManual == InitManual /\ [][NextManual]_vars

Loaded(value, msgs) == <<[value |-> value, msgs |-> msgs]>>

\* The run a click on Run Prediction triggers, both models loaded by an
\* earlier run; the models answer anything for the rows of the batch.
InitPredict ==
    /\ files = [p \in Paths |-> "valid"]
    /\ cache = [p \in Paths |-> Loaded("model", <<>>)]
    /\ rng = [i \in SensorCalls |-> 0]
    /\ \E f \in {NoFile} \cup {c \in CsvFiles : Len(c.rows) < MaxBatch},
          d \in DistanceVals :
          /\ w = [DefaultWidgets EXCEPT !.uploaded = f, !.clicked = TRUE,
                                        !.controls.distance_traveled = d]
          /\ rul_out \in {o \in [1..MaxRows -> RulVals] :
                             \A i \in 1..MaxRows :
                                 i > Len(f.rows) + 1 => o[i] = R(300)}
          /\ proba_out \in {o \in [1..MaxRows -> ProbVals] :
                               \A i \in 1..MaxRows :
                                   i > Len(f.rows) + 1 => o[i] = <<3, 10>>}
    /\ front = Settled(w)
    /\ InitRun

NextPredict == LoadRul \/ LoadFailure \/ Sidebar \/ Tab1 \/ Tab2

SpecPredict == InitPredict /\ [][NextPredict]_vars

\* The run that ticking Start Live Monitoring triggers, no model on disk,
\* from any state of the random generator.
InitLive ==
    /\ files = [p \in Paths |-> "missing"]
    /\ cache = [p \in Paths |->
                   Loaded("None", <<Msg("sidebar", "error", "Model not found")>>)]
    /\ rul_out = [i \in 1..MaxRows |-> R(300)]
    /\ proba_out = [i \in 1..MaxRows |-> <<3, 10>>]
    /\ rng \in [SensorCalls -> Grid]
    /\ w = [DefaultWidgets EXCEPT !.checkbox = TRUE]
    /\ front = w
    /\ InitRun

SpecLive == InitLive /\ [][Script]_vars

(***************************************************************************)
(* Properties.                                                             *)
(***************************************************************************)
AfterTab2 == {"tab3", "generate", "display", "sleep", "end"}
Loop == {"generate", "display", "sleep"}
HasMessage(where, kind) ==
    \E i \in 1..Len(messages) :
        messages[i].where = where /\ messages[i].kind = kind

\* The average RUL the models returned for the rows of the batch.
BatchAvgRul == Mean([i \in 1..Len(input_data[1]) |-> rul_out[i]])

\* C1: every row of the prediction result carries that row's own RUL and
\* failure probability, and its warranty decision is "Accepted" exactly when
\* the RUL is below 180 days or the probability is above 0.5, "Rejected"
\* otherwise; (179, 0.1) and (300, 0.6) are Accepted, (300, 0.3) and the
\* boundary (180, 0.5) are Rejected.
C1_WarrantyDecision ==
    \A i \in 1..Len(results) :
        LET row == results[i]
            rul == row.RUL_days
            p == row.Failure_Probability
            d == row.Warranty_Claim_Accepted
        IN  /\ rul = rul_out[i]
            /\ p = proba_out[i]
            /\ d \in {"Accepted", "Rejected"}
            /\ d = "Accepted" <=> (rul[1] < 180 * rul[2] \/ 2 * p[1] > p[2])
            /\ (rul = R(179) /\ p = <<1, 10>>) => d = "Accepted"
            /\ (rul = R(300) /\ p = <<6, 10>>) => d = "Accepted"
            /\ (rul = R(300) /\ p = <<3, 10>>) => d = "Rejected"
            /\ (rul = R(180) /\ p = <<1, 2>>) => d = "Rejected"

C1_Witness ==
    /\ Len(results) = 2
    /\ results[1].RUL_days = R(180)
    /\ results[1].Failure_Probability = <<1, 2>>
    /\ results[1].Warranty_Claim_Accepted = "Rejected"
    /\ results[2].RUL_days = R(300)
    /\ results[2].Failure_Probability = <<6, 10>>
    /\ results[2].Warranty_Claim_Accepted = "Accepted"

\* C2 (as claimed): in a run triggered by Run Prediction while a model file
\* is missing, the load step has returned None for that path and, once the
\* prediction section is passed, that section has shown an error; the run
\* has not crashed.
C2_PressWithMissingModelReports ==
    (/\ w.clicked
     /\ pc \in AfterTab2 \cup {"crashed"}
     /\ \A p \in Paths : files[p] # "corrupt"
     /\ \E p \in Paths : files[p] = "missing")
    => /\ pc # "crashed"
       /\ files[RUL_MODEL_PATH] = "missing" => rul_model = "None"
       /\ files[FAILURE_MODEL_PATH] = "missing" => failure_model = "None"
       /\ HasMessage("tab2", "error")

\* x = int(q / k) for an integer x, a rational q and a divisor k > 0: x is
\* q / k with its fractional part dropped.
IsTruncOf(x, q, k) ==
    IF q[1] >= 0
    THEN x * k * q[2] <= q[1] /\ q[1] < (x + 1) * k * q[2]
    ELSE (x - 1) * k * q[2] < q[1] /\ q[1] <= x * k * q[2]

\* C3: after a successful prediction the recommended intervals are the
\* average RUL over all rows of the batch divided by 3 (battery), 2 (brakes),
\* 4 (cooling), 5 (motor) and the distance traveled divided by 1000 (tire
\* rotation), each truncated to an integer; average 300 with distance 45000
\* gives 100, 150, 75, 60 and 45.
C3_MaintenanceIntervals ==
    recs # <<>> =>
        LET avg == BatchAvgRul
            dist == w.controls.distance_traveled
            r == recs[1]
        IN  /\ Len(results) = Len(input_data[1])
            /\ IsTruncOf(r.battery, avg, 3)
            /\ IsTruncOf(r.brakes, avg, 2)
            /\ IsTruncOf(r.cooling, avg, 4)
            /\ IsTruncOf(r.motor, avg, 5)
            /\ IsTruncOf(r.tires, dist, 1000)
            /\ (REq(avg, R(300)) /\ dist = R(45000)) =>
                   r = [battery |-> 100, brakes |-> 150, cooling |-> 75,
                        motor |-> 60, tires |-> 45]

C3_Witness ==
    /\ recs # <<>>
    /\ Len(results) = 2
    /\ rul_out[1] = R(180) /\ rul_out[2] = R(420)
    /\ w.controls.distance_traveled = R(45000)
    /\ recs[1].battery = 100 /\ recs[1].tires = 45

\* C4 (as claimed): every bar of the chart has the height the recommendation
\* list gives its component: Battery avg/3, Brakes avg/2, Tires
\* distance/1000, Cooling avg/4, Motor avg/5.
C4_ChartMatchesList ==
    chart # <<>> =>
        LET avg == BatchAvgRul
            dist == w.controls.distance_traveled
            bar == chart[1]
        IN  /\ DOMAIN bar = {"Battery", "Brakes", "Tires", "Cooling", "Motor"}
            /\ REq(bar["Battery"], RDivInt(avg, 3))
            /\ REq(bar["Brakes"], RDivInt(avg, 2))
            /\ REq(bar["Tires"], RDivInt(dist, 1000))
            /\ REq(bar["Cooling"], RDivInt(avg, 4))
            /\ REq(bar["Motor"], RDivInt(avg, 5))

\* C5: once the upload section has met a file that does not parse, the run
\* has shown the error there and has not crashed, csv_data is None, and a
\* batch built by the prediction of that run is the manual row alone.
C5_UnparsableUploadIgnored ==
    uploaded_file.kind = "bad" =>
        /\ HasMessage("tab1", "error")
        /\ ~HasMessage("tab1", "success")
        /\ pc # "crashed"
        /\ csv_data = <<>>
        /\ input_data # <<>> => input_data[1] = <<ManualRow(w.controls)>>
        /\ results # <<>> => Len(results) = 1

C5_Witness ==
    /\ uploaded_file.kind = "bad"
    /\ uploaded_file.rows # <<>>
    /\ input_data # <<>>
    /\ results # <<>>
    /\ pc = "tab3"

\* C6: a model method is invoked only in a run triggered by Run Prediction
\* with both models loaded; a failure raised anywhere in the try block is
\* shown as an error in the prediction section, and the run is then at or
\* past the Live Sensor Console section, never crashed.
C6_PredictionFailureCaught ==
    /\ calls # <<>> =>
           /\ w.clicked
           /\ rul_model = "model" /\ failure_model = "model"
           /\ \A p \in Paths : files[p] = "valid"
    /\ exc # "none" =>
           /\ HasMessage("tab2", "error")
           /\ pc \in AfterTab2
           /\ chart = <<>>
    /\ (pc \in AfterTab2 /\ w.clicked /\ ModelsAvailable /\ exc = "none") =>
           /\ calls = <<"predict", "predict_proba">>
           /\ chart # <<>>
           /\ ~HasMessage("tab2", "error")

C6_Witness ==
    /\ exc = "concat"
    /\ pc = "display"
    /\ HasMessage("tab2", "error")

\* C7: the batch is the manual row followed by the rows of the uploaded
\* data in their order (1 + n rows), the manual row alone when there is no
\* uploaded data, and the result table has one row per batch row, in order.
C7_BatchIsManualThenUploaded ==
    input_data # <<>> =>
        LET batch == input_data[1]
            n == IF csv_data = <<>> THEN 0 ELSE Len(csv_data[1])
        IN  /\ Len(batch) = 1 + n
            /\ batch[1] = ManualRow(w.controls)
            /\ \A i \in 1..n : batch[1 + i] = uploaded_file.rows[i]
            /\ uploaded_file.kind = "csv" => n = Len(uploaded_file.rows)
            /\ uploaded_file.kind = "none" => batch = <<ManualRow(w.controls)>>
            /\ results # <<>> =>
                   /\ Len(results) = Len(batch)
                   /\ \A i \in 1..Len(batch) : results[i].features = batch[i]

C7_Witness ==
    /\ results # <<>>
    /\ uploaded_file.kind = "csv"
    /\ Len(uploaded_file.rows) = 2
    /\ uploaded_file.rows[1] # uploaded_file.rows[2]
    /\ Len(input_data[1]) = 3

\* The control each field of the manual row is entered with.
FieldControl ==
    [SoC |-> "soc", SoH |-> "soh", Battery_Voltage |-> "battery_voltage",
     Battery_Current |-> "battery_current",
     Battery_Temperature |-> "battery_temp",
     Charge_Cycles |-> "charge_cycles", Motor_Temperature |-> "motor_temp",
     Motor_Vibration |-> "motor_vibration", Motor_Torque |-> "motor_torque",
     Motor_RPM |-> "motor_rpm", Power_Consumption |-> "power_consumption",
     Brake_Pad_Wear |-> "brake_wear", Brake_Pressure |-> "brake_pressure",
     Reg_Brake_Efficiency |-> "reg_brake_eff",
     Tire_Pressure |-> "tire_pressure", Tire_Temperature |-> "tire_temp",
     Suspension_Load |-> "suspension_load",
     Ambient_Temperature |-> "ambient_temp",
     Ambient_Humidity |-> "ambient_humidity", Load_Weight |-> "load_weight",
     Driving_Speed |-> "driving_speed",
     Distance_Traveled |-> "distance_traveled", Idle_Time |-> "idle_time",
     Route_Roughness |-> "route_roughness"]

Normalized == {"SoC", "SoH", "Brake_Pad_Wear"}

\* C8: the manual row has the 24 fields; each equals the value of its
\* control, except SoC, SoH and Brake_Pad_Wear, which are the control's
\* value / 100 and so lie in [0, 1].
C8_ManualRowMatchesControls ==
    manual_input # <<>> =>
        LET row == manual_input[1]
            c == w.controls
        IN  /\ DOMAIN row = DOMAIN FieldControl
            /\ Cardinality(DOMAIN row) = 24
            /\ \A f \in DOMAIN row :
                   LET v == c[FieldControl[f]]
                   IN  IF f \in Normalized
                       THEN /\ REq(RMulInt(row[f], 100), v)
                            /\ RLe(R(0), row[f]) /\ RLe(row[f], R(1))
                       ELSE row[f] = v

C8_Witness ==
    /\ manual_input # <<>>
    /\ w.controls.brake_wear = R(100)
    /\ REq(manual_input[1]["Brake_Pad_Wear"], R(1))

\* The ranges of the live sample's fields.
LiveRange ==
    [Battery_Voltage |-> <<R(380), R(420)>>,
     Battery_Current |-> <<R(-50), R(50)>>,
     Battery_Temperature |-> <<R(25), R(40)>>,
     Motor_Temperature |-> <<R(50), R(90)>>,
     Motor_Vibration |-> <<(<<1, 10>>), R(2)>>,
     Brake_Pad_Wear |-> <<(<<1, 10>>), (<<9, 10>>)>>,
     Tire_Pressure |-> <<R(28), R(36)>>,
     Ambient_Temperature |-> <<R(20), R(35)>>]

\* C9: every live sample, after any number of iterations, has exactly the
\* eight fields, each within its range.
C9_SampleWithinRanges ==
    sensor_data # <<>> =>
        LET d == sensor_data[1]
        IN  /\ DOMAIN d = DOMAIN LiveRange
            /\ Cardinality(DOMAIN d) = 8
            /\ \A f \in DOMAIN d :
                   RLe(LiveRange[f][1], d[f]) /\ RLe(d[f], LiveRange[f][2])

C9_Witness ==
    /\ samples = MaxSamples
    /\ sensor_data # <<>>
    /\ REq(sensor_data[1]["Battery_Voltage"], R(420))
    /\ REq(sensor_data[1]["Brake_Pad_Wear"], <<1, 10>>)
    /\ REq(sensor_data[1]["Battery_Current"], R(-50))

C10_LoopState ==
    /\ pc \in Loop =>
           /\ start /\ w.checkbox
           /\ manual_input # <<>>
           /\ uploaded_file = w.uploaded
           /\ (w.clicked /\ ModelsAvailable) => (exc # "none" \/ chart # <<>>)
    /\ ~w.checkbox =>
           samples = 0 /\ sensor_data = <<>> /\ placeholder = <<>>
    /\ pc = "generate" =>
           /\ elapsed = 2 * samples
           /\ samples > 0 => placeholder[1].chart = sensor_data[1]
    /\ pc = "display" =>
           samples >= 1 /\ elapsed = 2 * (samples - 1)
    /\ pc = "sleep" =>
           /\ samples >= 1 /\ elapsed = 2 * (samples - 1)
           /\ placeholder # <<>> /\ placeholder[1].chart = sensor_data[1]

C10_LoopStep ==
    /\ (pc \in Loop /\ pc' \notin Loop) =>
           Pending /\ pc = "display" /\ pc' = "load_rul" /\ w' = front
    /\ (pc = "generate" /\ pc' # pc) =>
           pc' = "display" /\ samples' = samples + 1 /\ elapsed' = elapsed
    /\ (pc = "display" /\ pc' \in Loop \ {pc}) =>
           pc' = "sleep" /\ samples' = samples /\ elapsed' = elapsed
    /\ (pc = "sleep" /\ pc' # pc) =>
           pc' = "generate" /\ samples' = samples /\ elapsed' = elapsed + 2
    /\ (pc \notin Loop /\ pc' \in Loop) =>
           pc = "tab3" /\ pc' = "generate" /\ w.checkbox /\ w' = w

\* C10: the live loop is entered only from the end of the console section,
\* after the input and prediction sections, and only if the checkbox the
\* run read is on; each iteration generates one sample, displays it and
\* sleeps 2 seconds; the run leaves the loop only by being re-executed,
\* whatever the checkbox in the browser shows meanwhile; a run that read
\* the checkbox off generates no sample.
C10_LiveLoop == [](C10_LoopState) /\ [][C10_LoopStep]_vars

C10_Witness ==
    /\ pc = "generate"
    /\ samples >= 1
    /\ elapsed = 2
    /\ ~front.checkbox
    /\ start
====
